---- MODULE Spec2Model ----
(***************************************************************************)
(* Model of pkg/module/directory/group.go: the SCIM group client.          *)
(*                                                                         *)
(* Strings are sequences of tokens.  The tokens that matter to the code    *)
(* (the literal `value eq `, the double quote) are kept apart so that the  *)
(* regular expression of extractUsernameFromPath and the Sprintf of the    *)
(* canonical remove path are computed, not assumed.                        *)
(*                                                                         *)
(* The transport (Get/Post/Patch/Delete) and the user resolver are         *)
(* external: each call to them is a nondeterministic choice over the       *)
(* results their signatures allow.  Every external call is appended to     *)
(* `calls`, the per-call log.                                              *)
(***************************************************************************)
EXTENDS Integers, Sequences, FiniteSets, TLC

VARIABLES
    pc,            \* position of the running call: idle, lookup, get, list, delete, resolve, translate, done
    opName,        \* the public operation being executed
    members,       \* group.Members[*].Value, the caller's Group object (CreateGroup)
    members0,      \* the member values the caller passed in
    operations,    \* the caller's operations slice (UpdateGroup), mutated in place
    operations0,   \* the operations the caller passed in
    i,             \* outer loop index (1-based)
    j,             \* inner loop index over an add operation's value list (1-based)
    groupID,       \* the id returned by getGroupId, <<>> before
    groupName,     \* the display name the caller passed
    listURL,       \* the URL GetGroups built from sort and count
    lookupResp,    \* <<>> or <<r>>: what the transport returned to getGroupId's GET
    finalResp,     \* <<>> or <<r>>: what the transport returned to the call's last request
    calls,         \* log of the external calls made by the running call
    postBody,      \* member values serialized into the POST body
    patchBody,     \* operations serialized into the PATCH body
    result         \* what the call returned: [kind, err, val]

vars == <<pc, opName, members, members0, operations, operations0, i, j,
          groupID, groupName, listURL, lookupResp, finalResp, calls, postBody, patchBody,
          result>>

\* ------------------------------------------------------------------ bounds

MaxMembers == 2
MaxOps == 2
MaxVals == 2
MaxPathLen == 4

\* ------------------------------------------------------------ program text

apiGroups == "v2.0/Groups"
StatusOK == 200
StatusCreated == 201
StatusNoContent == 204

VEQ == "value eq "
Q == "\""

Tenant == "tenant"

\* ----------------------------------------------------------------- helpers

RECURSIVE SeqsUpTo(_, _)
SeqsUpTo(S, n) ==
    IF n = 0 THEN {<<>>}
    ELSE LET shorter == SeqsUpTo(S, n - 1)
         IN  shorter \cup {Append(s, x) : s \in {t \in shorter : Len(t) = n - 1}, x \in S}

Min(S) == CHOOSE x \in S : \A y \in S : x <= y

\* ------------------------------------------------------ external: resolver

\* The id the user directory holds for a username.
UserId(username) == <<"id:">> \o username

\* ------------------------------------------------------ external: classifier

\* module.HandleCommonErrors: an error for the statuses it recognizes, nil otherwise.
HandleCommonErrors(status) ==
    IF status = 401 THEN "Unauthorized"
    ELSE IF status = 404 THEN "NotFound"
    ELSE "nil"

\* ----------------------------------------------------------- pure functions

\* Position p starts a match of  value eq "?([^"]+)"?  in path.
MatchStart(path, p) ==
    IF p + 1 <= Len(path) /\ path[p + 1] = Q THEN p + 2 ELSE p + 1

MatchesAt(path, p) ==
    /\ path[p] = VEQ
    /\ MatchStart(path, p) <= Len(path)
    /\ path[MatchStart(path, p)] # Q

\* [^"]+ is greedy: the capture runs to the next quote or to the end.
CaptureEnd(path, s) ==
    LET quotes == {q \in s..Len(path) : path[q] = Q}
    IN  IF quotes = {} THEN Len(path) ELSE Min(quotes) - 1

\* extractUsernameFromPath with the quotes required:  value eq "([^"]+)"
extractUsernameQuotedOnly(path) ==
    LET closed(p) == /\ path[p] = VEQ
                     /\ p + 2 <= Len(path)
                     /\ path[p + 1] = Q
                     /\ path[p + 2] # Q
                     /\ CaptureEnd(path, p + 2) < Len(path)
        hits == {p \in 1..Len(path) : closed(p)}
    IN  IF hits = {} THEN <<>>
        ELSE SubSeq(path, Min(hits) + 2, CaptureEnd(path, Min(hits) + 2))

extractUsernameFromPath(path) ==
    LET hits == {p \in 1..Len(path) : MatchesAt(path, p)}
    IN  IF hits = {} THEN <<>>
        ELSE LET s == MatchStart(path, Min(hits))
             IN  SubSeq(path, s, CaptureEnd(path, s))

\* fmt.Sprintf("members[value eq \"%s\"]", userID)
RemovePath(userID) == <<"members[", VEQ, Q>> \o userID \o <<Q, "]">>

\* fmt.Sprintf("https://%s/%s/%s", auth.Tenant, apiGroups, id)
GroupURL(id) == <<"https://", Tenant, "/", apiGroups, "/">> \o id

CollectionURL(sort, count) ==
    <<"https://", Tenant, "/", apiGroups>>
        \o (IF Len(sort) > 0 \/ Len(count) > 0 THEN <<"?">> ELSE <<>>)
        \o (IF Len(count) > 0 THEN <<"count=">> \o count ELSE <<>>)
        \o (IF Len(sort) > 0 /\ Len(count) > 0 THEN <<"&">> ELSE <<>>)
        \o (IF Len(sort) > 0 THEN <<"sortBy=">> \o sort ELSE <<>>)

\* ------------------------------------------------------------------ inputs

GroupNames == {<<"Engineers">>}
Usernames == {<<"alice">>, <<"bob">>}

\* What a caller can put in group.Members[*].Value
MemberLists == SeqsUpTo(Usernames, MaxMembers)

\* One element of an add operation's value list, as decoded JSON:
\* a map with a string "value", a map without one, or something that is no map.
Member(u) == [isMap |-> TRUE, hasValue |-> TRUE, value |-> u, display |-> "d"]
NoValueMap == [isMap |-> TRUE, hasValue |-> FALSE, value |-> <<>>, display |-> "d"]
NotAMap == [isMap |-> FALSE, hasValue |-> FALSE, value |-> <<>>, display |-> ""]
Elements == {Member(u) : u \in Usernames} \cup {NoValueMap, NotAMap}

List(items) == [isList |-> TRUE, items |-> items]
NotAList == [isList |-> FALSE, items |-> <<>>]

Entry(op, path, value) == [Op |-> op, Path |-> path, Value |-> value]

PathTokens == {VEQ, Q, "bob"}
Paths == SeqsUpTo(PathTokens, MaxPathLen)

\* Operations as callers write them.
SimpleEntries ==
    { Entry("add", <<"members">>, List(<<Member(<<"alice">>)>>)),
      Entry("add", <<"members">>, List(<<NoValueMap>>)),
      Entry("add", <<"owners">>, List(<<Member(<<"alice">>)>>)),
      Entry("remove", RemovePath(<<"bob">>), NotAList),
      Entry("remove", <<"members[", VEQ, Q, "alice", Q, " or ", VEQ, Q, "bob", Q, "]">>, NotAList),
      Entry("remove", <<"members">>, NotAList),
      Entry("replace", <<"displayName">>, NotAList) }

AddEntries ==
    {Entry("add", <<"members">>, List(v)) : v \in SeqsUpTo(Elements, MaxVals)}
        \cup {Entry("add", <<"members">>, NotAList)}

RemoveEntries == {Entry("remove", p, NotAList) : p \in Paths}

\* The operation lists the model calls UpdateGroup with: every list of simple
\* entries up to MaxOps, every single add over the member elements, and every
\* single remove over the paths.
OperationLists ==
    SeqsUpTo(SimpleEntries, MaxOps)
        \cup {<<e>> : e \in AddEntries \cup RemoveEntries}

\* ------------------------------------------------------- external: transport

Statuses == {StatusOK, StatusCreated, StatusNoContent, 404, 500}

Resource(isMap, idIsString, id) == [isMap |-> isMap, idIsString |-> idIsString, id |-> id]

LookupBody(json, isArray, items) == [json |-> json, isArray |-> isArray, items |-> items]

LookupBodies ==
    { LookupBody(FALSE, FALSE, <<>>),
      LookupBody(TRUE, FALSE, <<>>),
      LookupBody(TRUE, TRUE, <<>>),
      LookupBody(TRUE, TRUE, <<Resource(FALSE, FALSE, <<>>)>>),
      LookupBody(TRUE, TRUE, <<Resource(TRUE, FALSE, <<>>)>>),
      LookupBody(TRUE, TRUE, <<Resource(TRUE, TRUE, <<"g-1">>)>>),
      LookupBody(TRUE, TRUE, <<Resource(TRUE, TRUE, <<"g-1">>), Resource(TRUE, TRUE, <<"g-2">>)>>) }

\* (*Response, error) of the lookup GET: an error comes with a nil response or
\* with an empty one; without an error there is a response.
LookupResponses ==
    { [err |-> TRUE, isNil |-> n, status |-> 0, body |-> LookupBody(FALSE, FALSE, <<>>)]
        : n \in BOOLEAN }
    \cup { [err |-> FALSE, isNil |-> FALSE, status |-> s, body |-> b]
        : s \in Statuses, b \in LookupBodies }

Body(json, idIsString, id) == [json |-> json, idIsString |-> idIsString, id |-> id]

Bodies ==
    { Body(FALSE, FALSE, <<>>),
      Body(TRUE, FALSE, <<>>),
      Body(TRUE, TRUE, <<"g-1">>) }

Responses ==
    { [err |-> TRUE, status |-> 0, body |-> Body(FALSE, FALSE, <<>>)] }
    \cup { [err |-> FALSE, status |-> s, body |-> b] : s \in Statuses, b \in Bodies }

\* One entry of the call log; ok is FALSE when the call returned an error.
Call(kind, target, arg, ok) == [kind |-> kind, target |-> target, arg |-> arg, ok |-> ok]

\* ------------------------------------------------------------- return values

NoResult == [kind |-> "none", err |-> <<>>, val |-> <<>>]
Ok(val) == [kind |-> "ok", err |-> <<>>, val |-> val]
Error(msg) == [kind |-> "error", err |-> msg, val |-> <<>>]
Panic == [kind |-> "panic", err |-> <<>>, val |-> <<>>]

\* ---------------------------------------------------------------- getGroupId

\* getGroupId without the len(resources) == 0 test: resources[0] of an empty
\* array is an index-out-of-range panic.
getGroupIdUnchecked(name, r) ==
    IF r.isNil THEN Panic
    ELSE IF r.status # StatusOK /\ HandleCommonErrors(r.status) # "nil"
        THEN Error(<<"unable to get the Group with groupName ">> \o name
                        \o <<"; err=", HandleCommonErrors(r.status)>>)
    ELSE IF ~r.body.json THEN Error(<<"failed to parse response">>)
    ELSE IF ~r.body.isArray THEN Error(<<"no group found with group name ">> \o name)
    ELSE IF Len(r.body.items) = 0 THEN Panic
    ELSE IF ~r.body.items[1].isMap THEN Error(<<"invalid resource format">>)
    ELSE IF ~r.body.items[1].idIsString THEN Error(<<"ID not found or invalid type">>)
    ELSE Ok(r.body.items[1].id)

\* What getGroupId returns for the transport result r: an id, an error, or a
\* nil-pointer panic at response.StatusCode.
getGroupId(name, r) ==
    IF r.isNil THEN Panic
    ELSE IF r.status # StatusOK /\ HandleCommonErrors(r.status) # "nil"
        THEN Error(<<"unable to get the Group with groupName ">> \o name
                        \o <<"; err=", HandleCommonErrors(r.status)>>)
    ELSE IF ~r.body.json THEN Error(<<"failed to parse response">>)
    ELSE IF ~r.body.isArray \/ Len(r.body.items) = 0
        THEN Error(<<"no group found with group name ">> \o name)
    ELSE IF ~r.body.items[1].isMap THEN Error(<<"invalid resource format">>)
    ELSE IF ~r.body.items[1].idIsString THEN Error(<<"ID not found or invalid type">>)
    ELSE Ok(r.body.items[1].id)

\* -------------------------------------------------------------- call entry

Idle == pc = "idle"

\* A public method is entered: the arguments are bound and the call's
\* bookkeeping starts empty.  The client keeps nothing between calls, so a
\* behaviour is one call, from its entry to its return.
Enter(op, name, mems, ops, url, at) ==
    /\ opName' = op
    /\ groupName' = name
    /\ listURL' = url
    /\ members' = mems
    /\ members0' = mems
    /\ operations' = ops
    /\ operations0' = ops
    /\ i' = 1
    /\ j' = 1
    /\ groupID' = <<>>
    /\ lookupResp' = <<>>
    /\ finalResp' = <<>>
    /\ calls' = <<>>
    /\ postBody' = <<>>
    /\ patchBody' = <<>>
    /\ result' = NoResult
    /\ pc' = at

Return(r) ==
    /\ result' = r
    /\ pc' = "done"

CallGetGroup(name) ==
    /\ Idle
    /\ Enter("GetGroup", name, <<>>, <<>>, <<>>, "lookup")

CallDeleteGroup(name) ==
    /\ Idle
    /\ Enter("DeleteGroup", name, <<>>, <<>>, <<>>, "lookup")

CallUpdateGroup(name, ops) ==
    /\ Idle
    /\ Enter("UpdateGroup", name, <<>>, ops, <<>>, "lookup")

CallCreateGroup(mems) ==
    /\ Idle
    /\ Enter("CreateGroup", <<>>, mems, <<>>, <<>>, "resolve")

\* ------------------------------------------------------------------ lookup

\* How each caller of getGroupId passes its error on.
LookupError(op, g) ==
    IF g.kind = "panic" THEN Panic
    ELSE IF op = "GetGroup" THEN g
    ELSE Error(<<"unable to get the group ID; err=">> \o g.err)

AfterLookup(op) ==
    IF op = "GetGroup" THEN "get"
    ELSE IF op = "DeleteGroup" THEN "delete"
    ELSE "translate"

\* id, err := c.getGroupId(ctx, auth, groupName) and the err check after it
Lookup ==
    /\ pc = "lookup"
    /\ \E r \in LookupResponses :
         LET g == getGroupId(groupName, r) IN
         /\ calls' = Append(calls, Call("GET", "lookup", groupName, ~r.err))
         /\ lookupResp' = <<r>>
         /\ IF g.kind = "ok"
              THEN /\ groupID' = g.val
                   /\ pc' = AfterLookup(opName)
                   /\ UNCHANGED result
              ELSE /\ Return(LookupError(opName, g))
                   /\ UNCHANGED groupID
    /\ UNCHANGED <<opName, groupName, listURL, members, members0, operations, operations0,
                   i, j, finalResp, postBody, patchBody>>

\* ----------------------------------------------------------------- GetGroup

GetGroupResult(r, id) ==
    IF r.err THEN Error(<<"transport error">>)
    ELSE IF r.status # StatusOK
        THEN IF HandleCommonErrors(r.status) # "nil"
               THEN Error(<<HandleCommonErrors(r.status)>>)
               ELSE Error(<<"unable to get the Group">>)
    ELSE IF ~r.body.json THEN Error(<<"unable to get the Group">>)
    ELSE Ok(GroupURL(id))

GetGroup ==
    /\ pc = "get"
    /\ \E r \in Responses :
         /\ calls' = Append(calls, Call("GET", "resource", groupID, ~r.err))
         /\ finalResp' = <<r>>
         /\ Return(GetGroupResult(r, groupID))
    /\ UNCHANGED <<opName, groupName, listURL, members, members0, operations, operations0,
                   i, j, groupID, lookupResp, postBody, patchBody>>

\* ---------------------------------------------------------------- GetGroups

SortAndCount == {<<>>, <<"x">>}

CallGetGroups(sort, count) ==
    /\ Idle
    /\ Enter("GetGroups", <<>>, <<>>, <<>>, CollectionURL(sort, count), "list")

GetGroupsResult(r, url) ==
    IF r.err THEN Error(<<"transport error">>)
    ELSE IF r.status # StatusOK
        THEN IF HandleCommonErrors(r.status) # "nil"
               THEN Error(<<HandleCommonErrors(r.status)>>)
               ELSE Error(<<"unable to get the Groups">>)
    ELSE IF ~r.body.json THEN Error(<<"unable to get the Groups">>)
    ELSE Ok(url)

GetGroups ==
    /\ pc = "list"
    /\ \E r \in Responses :
         /\ calls' = Append(calls, Call("GET", "collection", listURL, ~r.err))
         /\ finalResp' = <<r>>
         /\ Return(GetGroupsResult(r, listURL))
    /\ UNCHANGED <<opName, groupName, listURL, members, members0, operations, operations0,
                   i, j, groupID, lookupResp, postBody, patchBody>>

\* -------------------------------------------------------------- DeleteGroup

DeleteGroupResult(r) ==
    IF r.err THEN Error(<<"unable to delete the Group; err=", "transport error">>)
    ELSE IF r.status # StatusNoContent
        THEN IF HandleCommonErrors(r.status) # "nil"
               THEN Error(<<"unable to delete the Group; err=", HandleCommonErrors(r.status)>>)
               ELSE Error(<<"unable to delete the Group">>)
    ELSE Ok(<<>>)

DeleteGroup ==
    /\ pc = "delete"
    /\ \E r \in Responses :
         /\ calls' = Append(calls, Call("DELETE", "resource", groupID, ~r.err))
         /\ finalResp' = <<r>>
         /\ Return(DeleteGroupResult(r))
    /\ UNCHANGED <<opName, groupName, listURL, members, members0, operations, operations0,
                   i, j, groupID, lookupResp, postBody, patchBody>>

\* -------------------------------------------------------------- CreateGroup

ResolveError(username) ==
    Error(<<"unable to get user ID for username ">> \o username \o <<"; err=", "not found">>)

\* CreateGroupResolve that logs a failed resolution and goes on to the next member.
CreateGroupResolveContinue ==
    /\ pc = "resolve"
    /\ i <= Len(members)
    /\ \E found \in BOOLEAN :
         /\ calls' = Append(calls, Call("getUserId", "user", members[i], found))
         /\ members' = IF found THEN [members EXCEPT ![i] = UserId(members[i])] ELSE members
         /\ i' = i + 1
         /\ UNCHANGED <<pc, result>>
    /\ UNCHANGED <<opName, groupName, listURL, members0, operations, operations0,
                   j, groupID, lookupResp, finalResp, postBody, patchBody>>

\* CreateGroupResolve that assigns the id to the loop copy m, not to group.Members[i].
CreateGroupResolveCopy ==
    /\ pc = "resolve"
    /\ i <= Len(members)
    /\ \E found \in BOOLEAN :
         /\ calls' = Append(calls, Call("getUserId", "user", members[i], found))
         /\ IF found
              THEN /\ i' = i + 1
                   /\ UNCHANGED <<members, pc, result>>
              ELSE /\ Return(ResolveError(members[i]))
                   /\ UNCHANGED <<members, i>>
    /\ UNCHANGED <<opName, groupName, listURL, members0, operations, operations0,
                   j, groupID, lookupResp, finalResp, postBody, patchBody>>

\* One iteration of  for i, m := range group.Members
CreateGroupResolve ==
    /\ pc = "resolve"
    /\ i <= Len(members)
    /\ \E found \in BOOLEAN :
         /\ calls' = Append(calls, Call("getUserId", "user", members[i], found))
         /\ IF found
              THEN /\ members' = [members EXCEPT ![i] = UserId(members[i])]
                   /\ i' = i + 1
                   /\ UNCHANGED <<pc, result>>
              ELSE /\ Return(ResolveError(members[i]))
                   /\ UNCHANGED <<members, i>>
    /\ UNCHANGED <<opName, groupName, listURL, members0, operations, operations0,
                   j, groupID, lookupResp, finalResp, postBody, patchBody>>

CreateGroupResult(r) ==
    IF r.err THEN Error(<<"transport error">>)
    ELSE IF r.status # StatusCreated
        THEN Error(<<"Failed to create group; code=", ToString(r.status)>>)
    ELSE IF ~r.body.json THEN Error(<<"Failed to parse response">>)
    ELSE IF ~r.body.idIsString THEN Panic
    ELSE Ok(GroupURL(r.body.id))

\* json.Marshal(group), c.client.Post and what follows the response
CreateGroupPost ==
    /\ pc = "resolve"
    /\ i > Len(members)
    /\ \E r \in Responses :
         /\ calls' = Append(calls, Call("POST", "collection", <<>>, ~r.err))
         /\ postBody' = members
         /\ finalResp' = <<r>>
         /\ Return(CreateGroupResult(r))
    /\ UNCHANGED <<opName, groupName, listURL, members, members0, operations, operations0,
                   i, j, groupID, lookupResp, patchBody>>

\* -------------------------------------------------------------- UpdateGroup

IsAddMembers(e) == e.Op = "add" /\ e.Path = <<"members">>

\* The inner loop has an element to visit at (i, j).
InAddLoop ==
    /\ i <= Len(operations)
    /\ IsAddMembers(operations[i])
    /\ operations[i].Value.isList
    /\ j <= Len(operations[i].Value.items)

\* RewriteAdd that indexes the value list with the first element instead of j.
RewriteAddFirst(ops, oi, ej, userID) ==
    [ops EXCEPT ![oi].Value.items[1].value = userID]

\* RewriteAdd that assigns to a copy of the member map.
RewriteAddCopy(ops, oi, ej, userID) == ops

\* operations[i].Value.([]interface{})[j].(map[string]interface{})["value"] = userID
RewriteAdd(ops, oi, ej, userID) ==
    [ops EXCEPT ![oi].Value.items[ej].value = userID]

\* operations[i].Path = fmt.Sprintf("members[value eq \"%s\"]", userID)
RewriteRemove(ops, oi, userID) ==
    [ops EXCEPT ![oi].Path = RemovePath(userID)]

\* The inner loop moves to the next element, or the outer loop to the next operation.
NextElement ==
    IF j < Len(operations[i].Value.items)
      THEN /\ j' = j + 1
           /\ i' = i
      ELSE /\ j' = 1
           /\ i' = i + 1

\* UpdateGroupAdd that logs a failed resolution and goes on to the next element.
UpdateGroupAddContinue ==
    /\ pc = "translate"
    /\ InAddLoop
    /\ LET e == operations[i].Value.items[j] IN
         IF e.isMap /\ e.hasValue
           THEN \E found \in BOOLEAN :
                  /\ calls' = Append(calls, Call("getUserId", "user", e.value, found))
                  /\ operations' = IF found
                                     THEN RewriteAdd(operations, i, j, UserId(e.value))
                                     ELSE operations
                  /\ NextElement
                  /\ UNCHANGED <<pc, result>>
           ELSE /\ NextElement
                /\ UNCHANGED <<operations, calls, pc, result>>
    /\ UNCHANGED <<opName, groupName, listURL, members, members0, operations0,
                   groupID, lookupResp, finalResp, postBody, patchBody>>

\* One iteration of  for j, v := range values  under op == "add", path == "members"
UpdateGroupAdd ==
    /\ pc = "translate"
    /\ InAddLoop
    /\ LET e == operations[i].Value.items[j] IN
         IF e.isMap /\ e.hasValue
           THEN \E found \in BOOLEAN :
                  /\ calls' = Append(calls, Call("getUserId", "user", e.value, found))
                  /\ IF found
                       THEN /\ operations' = RewriteAdd(operations, i, j, UserId(e.value))
                            /\ NextElement
                            /\ UNCHANGED <<pc, result>>
                       ELSE /\ Return(ResolveError(e.value))
                            /\ UNCHANGED <<operations, i, j>>
           ELSE /\ NextElement
                /\ UNCHANGED <<operations, calls, pc, result>>
    /\ UNCHANGED <<opName, groupName, listURL, members, members0, operations0,
                   groupID, lookupResp, finalResp, postBody, patchBody>>

\* One iteration of the outer loop under op == "remove"
UpdateGroupRemove ==
    /\ pc = "translate"
    /\ i <= Len(operations)
    /\ ~IsAddMembers(operations[i])
    /\ operations[i].Op = "remove"
    /\ LET username == extractUsernameFromPath(operations[i].Path) IN
         IF username # <<>>
           THEN \E found \in BOOLEAN :
                  /\ calls' = Append(calls, Call("getUserId", "user", username, found))
                  /\ IF found
                       THEN /\ operations' = RewriteRemove(operations, i, UserId(username))
                            /\ i' = i + 1
                            /\ UNCHANGED <<pc, result>>
                       ELSE /\ Return(ResolveError(username))
                            /\ UNCHANGED <<operations, i>>
           ELSE /\ i' = i + 1
                /\ UNCHANGED <<operations, calls, pc, result>>
    /\ UNCHANGED <<opName, groupName, listURL, members, members0, operations0,
                   j, groupID, lookupResp, finalResp, postBody, patchBody>>

\* One iteration of the outer loop that rewrites nothing: another op or path,
\* or an add to members whose value is no list or an empty one.
UpdateGroupPass ==
    /\ pc = "translate"
    /\ i <= Len(operations)
    /\ ~InAddLoop
    /\ IsAddMembers(operations[i]) \/ operations[i].Op # "remove"
    /\ i' = i + 1
    /\ UNCHANGED <<pc, opName, groupName, listURL, members, members0, operations,
                   operations0, j, groupID, lookupResp, finalResp, calls, postBody,
                   patchBody, result>>

UpdateGroupResult(r) ==
    IF r.err THEN Error(<<"unable to update group; err=", "transport error">>)
    ELSE IF r.status # StatusNoContent
        THEN Error(<<"failed to update group ; code=", ToString(r.status)>>)
    ELSE Ok(<<>>)

\* json.Marshal(patchRequest), c.client.Patch and what follows the response
UpdateGroupPatch ==
    /\ pc = "translate"
    /\ i > Len(operations)
    /\ \E r \in Responses :
         /\ calls' = Append(calls, Call("PATCH", "resource", groupID, ~r.err))
         /\ patchBody' = operations
         /\ finalResp' = <<r>>
         /\ Return(UpdateGroupResult(r))
    /\ UNCHANGED <<opName, groupName, listURL, members, members0, operations, operations0,
                   i, j, groupID, lookupResp, postBody>>

\* ------------------------------------------------------------ specification

Init ==
    /\ pc = "idle"
    /\ opName = "none"
    /\ groupName = <<>>
    /\ listURL = <<>>
    /\ members = <<>>
    /\ members0 = <<>>
    /\ operations = <<>>
    /\ operations0 = <<>>
    /\ i = 1
    /\ j = 1
    /\ groupID = <<>>
    /\ lookupResp = <<>>
    /\ finalResp = <<>>
    /\ calls = <<>>
    /\ postBody = <<>>
    /\ patchBody = <<>>
    /\ result = NoResult

Next ==
    \/ \E name \in GroupNames : CallGetGroup(name)
    \/ \E sort \in SortAndCount, count \in SortAndCount : CallGetGroups(sort, count)
    \/ \E mems \in MemberLists : CallCreateGroup(mems)
    \/ \E name \in GroupNames : CallDeleteGroup(name)
    \/ \E name \in GroupNames, ops \in OperationLists : CallUpdateGroup(name, ops)
    \/ Lookup
    \/ GetGroup
    \/ GetGroups
    \/ CreateGroupResolve
    \/ CreateGroupPost
    \/ DeleteGroup
    \/ UpdateGroupAdd
    \/ UpdateGroupRemove
    \/ UpdateGroupPass
    \/ UpdateGroupPatch

Spec == Init /\ [][Next]_vars

\* ================================================================ properties

Done == pc = "done"

IsWrite(c) == c.kind \in {"POST", "PATCH"}
IsResolve(c) == c.kind = "getUserId"
IsTransport(c) == c.kind \in {"GET", "POST", "PATCH", "DELETE"}

FailedResolves == {k \in 1..Len(calls) : IsResolve(calls[k]) /\ ~calls[k].ok}

\* C1: in CreateGroup and UpdateGroup, once the resolver has failed for a
\* username the call has returned an error and its log holds no POST and no
\* PATCH, wherever the failing username stood.
C1_NoWriteAfterFailedResolve ==
    opName \in {"CreateGroup", "UpdateGroup"} /\ FailedResolves # {}
        => /\ Done
           /\ result.kind = "error"
           /\ \A k \in 1..Len(calls) : ~IsWrite(calls[k])

\* C1 witness: an UpdateGroup whose second resolution failed after the first succeeded.
C1_Witness ==
    /\ opName = "UpdateGroup"
    /\ Done
    /\ Len(calls) = 3
    /\ IsResolve(calls[2]) /\ calls[2].ok
    /\ IsResolve(calls[3]) /\ ~calls[3].ok

\* The lookup answered with a parsed body that lists no resource.
ZeroMatches ==
    /\ lookupResp # <<>>
    /\ ~lookupResp[1].isNil
    /\ ~lookupResp[1].err
    /\ lookupResp[1].body.json
    /\ ~lookupResp[1].body.isArray \/ lookupResp[1].body.items = <<>>

NoGroupFound(op, name) ==
    IF op = "GetGroup"
      THEN <<"no group found with group name ">> \o name
      ELSE <<"unable to get the group ID; err=", "no group found with group name ">> \o name

\* C2: when the lookup query returns zero matching resources, the operation
\* has returned an error, the lookup GET is the only call it made, and for a
\* 200 response the error is the lookup's not-found error.
C2_ZeroMatchesNotFound ==
    ZeroMatches
        => /\ Done
           /\ result.kind = "error"
           /\ Len(calls) = 1
           /\ calls[1].kind = "GET" /\ calls[1].target = "lookup"
           /\ lookupResp[1].status = StatusOK
                => result.err = NoGroupFound(opName, groupName)

\* C2 witness: an UpdateGroup with operations to translate, whose lookup got 200 and an empty Resources array.
C2_Witness ==
    /\ opName = "UpdateGroup"
    /\ operations0 # <<>>
    /\ ZeroMatches
    /\ lookupResp[1].status = StatusOK
    /\ lookupResp[1].body.isArray

\* C3: a transport error of any Get/Post/Patch/Delete call ends the operation
\* at once: it has returned an error and the failed call is the last one.
C3_TransportErrorFatal ==
    \A k \in 1..Len(calls) :
        IsTransport(calls[k]) /\ ~calls[k].ok
            => /\ Done
               /\ result.kind = "error"
               /\ k = Len(calls)

SuccessCode(op) ==
    IF op = "CreateGroup" THEN StatusCreated
    ELSE IF op \in {"DeleteGroup", "UpdateGroup"} THEN StatusNoContent
    ELSE StatusOK

\* C4: no step succeeds on another status than its success code: the lookup
\* yields an id only from a 200 response, and an operation returns without an
\* error only when its last response carried its success code.
C4_SuccessOnlyOnSuccessCode ==
    /\ groupID # <<>> => lookupResp[1].status = StatusOK
    /\ Done /\ result.kind = "ok" => finalResp[1].status = SuccessCode(opName)

\* The POST was answered 201 with a body holding no string id.
CreatedWithoutId ==
    /\ opName = "CreateGroup"
    /\ finalResp # <<>>
    /\ ~finalResp[1].err
    /\ finalResp[1].status = StatusCreated
    /\ finalResp[1].body.json
    /\ ~finalResp[1].body.idIsString

\* C5: CreateGroup answered 201 without a string id returns an error and an
\* empty URL; it returns a URL only for a string id, the group's URL.
C5_CreateNeverEmptyIdentity ==
    /\ CreatedWithoutId => Done /\ result.kind = "error" /\ result.val = <<>>
    /\ opName = "CreateGroup" /\ Done /\ result.val # <<>>
          => /\ finalResp[1].body.idIsString
             /\ result.val = <<"https://", Tenant, "/", "v2.0/Groups", "/">> \o finalResp[1].body.id

\* ------------------------------------------------ what the translator owes

PatchSent == opName = "UpdateGroup" /\ \E k \in 1..Len(calls) : calls[k].kind = "PATCH"
PostSent == opName = "CreateGroup" /\ \E k \in 1..Len(calls) : calls[k].kind = "POST"

\* A username: not empty, holding neither a quote nor a comparator.
IsUsername(s) == s # <<>> /\ \A k \in 1..Len(s) : s[k] # Q /\ s[k] # VEQ

Comparators(path) == {p \in 1..Len(path) : path[p] = VEQ}

SubSeqs(s) == {SubSeq(s, a, b) : a \in 1..Len(s), b \in 1..Len(s)}

\* path holds  value eq "u"  at p
QuotedAt(path, p, u) ==
    /\ IsUsername(u)
    /\ p + Len(u) + 2 <= Len(path)
    /\ path[p] = VEQ /\ path[p + 1] = Q
    /\ SubSeq(path, p + 2, p + 1 + Len(u)) = u
    /\ path[p + 2 + Len(u)] = Q

\* path ends with  value eq u  at p
UnquotedAt(path, p, u) ==
    /\ IsUsername(u)
    /\ path[p] = VEQ
    /\ SubSeq(path, p + 1, Len(path)) = u

NamedAt(path, p) == {u \in SubSeqs(path) : QuotedAt(path, p, u) \/ UnquotedAt(path, p, u)}

\* A username follows  value eq  at p, after a quote or without one.
HasName(path, p) ==
    /\ path[p] = VEQ
    /\ \/ p + 1 <= Len(path) /\ path[p + 1] # Q
       \/ p + 2 <= Len(path) /\ path[p + 1] = Q /\ path[p + 2] # Q

NameAt(path, p) ==
    LET s == IF path[p + 1] = Q THEN p + 2 ELSE p + 1
        e == CHOOSE e \in s..Len(path) :
                 /\ \A k \in s..e : path[k] # Q
                 /\ e = Len(path) \/ path[e + 1] = Q
    IN  SubSeq(path, s, e)

\* The username a remove path embeds, <<>> when it embeds none.
EmbeddedUsername(path) ==
    LET named == {p \in 1..Len(path) : HasName(path, p)}
    IN  IF named = {} THEN <<>> ELSE NameAt(path, Min(named))

IsAddList(e) == e.Op = "add" /\ e.Path = <<"members">> /\ e.Value.isList
HasStringValue(m) == m.isMap /\ m.hasValue

\* The places of an operation list that name a user, in the order of the list:
\* <<o, e>> is element e of add operation o, <<o, 0>> the path of remove operation o.
OpSlots(ops, o) ==
    IF IsAddList(ops[o])
      THEN SelectSeq([e \in 1..Len(ops[o].Value.items) |-> <<o, e>>],
                     LAMBDA sl : HasStringValue(ops[o].Value.items[sl[2]]))
    ELSE IF ops[o].Op = "remove" /\ EmbeddedUsername(ops[o].Path) # <<>>
      THEN << <<o, 0>> >>
    ELSE <<>>

RECURSIVE SlotsFrom(_, _)
SlotsFrom(ops, o) ==
    IF o > Len(ops) THEN <<>> ELSE OpSlots(ops, o) \o SlotsFrom(ops, o + 1)

Slots(ops) == SlotsFrom(ops, 1)

SlotUsername(ops, sl) ==
    IF sl[2] = 0 THEN EmbeddedUsername(ops[sl[1]].Path)
    ELSE ops[sl[1]].Value.items[sl[2]].value

ExpectedResolves(ops) == [k \in 1..Len(Slots(ops)) |-> SlotUsername(ops, Slots(ops)[k])]

\* The usernames the resolver was asked for, in call order.
ResolveArgs ==
    LET rs == SelectSeq(calls, IsResolve) IN [k \in 1..Len(rs) |-> rs[k].arg]

IsPrefix(s, t) == Len(s) <= Len(t) /\ SubSeq(t, 1, Len(s)) = s

\* ops with its first n user-naming places rewritten to ids.
Rewritten(ops, n) ==
    LET first == {Slots(ops)[k] : k \in 1..n} IN
    [o \in 1..Len(ops) |->
        IF <<o, 0>> \in first
          THEN [ops[o] EXCEPT !.Path =
                   <<"members[", VEQ, Q>> \o UserId(EmbeddedUsername(ops[o].Path)) \o <<Q, "]">>]
        ELSE IF IsAddList(ops[o])
          THEN [ops[o] EXCEPT !.Value.items =
                   [e \in 1..Len(ops[o].Value.items) |->
                       IF <<o, e>> \in first
                         THEN [ops[o].Value.items[e] EXCEPT !.value = UserId(@)]
                         ELSE ops[o].Value.items[e]]]
        ELSE ops[o]]

Removes(ops) == {o \in 1..Len(ops) : ops[o].Op = "remove"}

CanonicalPath(u) == <<"members[", VEQ, Q>> \o UserId(u) \o <<Q, "]">>

\* A remove path that embeds no username goes out as it came in and asks the resolver nothing.
UnnamedRemovesUntouched ==
    PatchSent =>
        /\ \A o \in Removes(operations0) :
               (\A p \in 1..Len(operations0[o].Path) : ~HasName(operations0[o].Path, p))
                   => patchBody[o] = operations0[o]
        /\ ResolveArgs = ExpectedResolves(operations0)

\* C6 as stated: in the PATCH of an UpdateGroup whose resolutions all
\* succeeded, every remove whose path holds  value eq "u"  anywhere, or ends
\* with  value eq u , has the path  members[value eq "<id of u>"] ; a remove
\* path without a username is sent as it came and resolves nothing.
C6_RemoveRewrittenAnywhere ==
    /\ PatchSent =>
         \A o \in Removes(operations0) :
           \A p \in Comparators(operations0[o].Path) :
             \A u \in NamedAt(operations0[o].Path, p) :
               patchBody[o].Path = CanonicalPath(u)
    /\ UnnamedRemovesUntouched

\* C6 amended: the same, for the username that follows the first  value eq
\* of the path.
C6_RemoveRewrittenAtFirst ==
    /\ PatchSent =>
         \A o \in Removes(operations0) :
           \A p \in Comparators(operations0[o].Path) :
             p = Min(Comparators(operations0[o].Path)) =>
               \A u \in NamedAt(operations0[o].Path, p) :
                 /\ patchBody[o].Path = CanonicalPath(u)
                 /\ patchBody[o].Op = "remove"
    /\ UnnamedRemovesUntouched

\* C6 witness: the PATCH of a remove whose path was the unquoted  value eq bob .
C6_Witness ==
    /\ PatchSent
    /\ operations0 = <<Entry("remove", <<VEQ, "bob">>, NotAList)>>
    /\ patchBody[1].Path = <<"members[", VEQ, Q, "id:", "bob", Q, "]">>

\* C7: in the PATCH of an UpdateGroup, the resolver was asked once for each
\* string-valued element of the add/members lists (and each remove username),
\* in order and for nothing else; each such element carries the id of its
\* original username, and every other element and every operation that is
\* neither add/members nor remove is sent as it came.
C7_AddMembersResolved ==
    PatchSent =>
        /\ ResolveArgs = ExpectedResolves(operations0)
        /\ Len(patchBody) = Len(operations0)
        /\ \A o \in 1..Len(operations0) :
             LET before == operations0[o]
                 after == patchBody[o]
             IN  IF IsAddList(before)
                   THEN /\ after.Op = before.Op /\ after.Path = before.Path
                        /\ after.Value.isList
                        /\ Len(after.Value.items) = Len(before.Value.items)
                        /\ \A e \in 1..Len(before.Value.items) :
                             after.Value.items[e] =
                                 IF HasStringValue(before.Value.items[e])
                                   THEN [before.Value.items[e] EXCEPT
                                            !.value = UserId(before.Value.items[e].value)]
                                   ELSE before.Value.items[e]
                 ELSE before.Op # "remove" => after = before

\* C7 witness: the PATCH of one add/members whose list held a member with a
\* username and an element without a string value.
C7_Witness ==
    /\ PatchSent
    /\ Len(operations0) = 1
    /\ IsAddList(operations0[1])
    /\ Len(operations0[1].Value.items) = 2
    /\ HasStringValue(operations0[1].Value.items[1])
    /\ ~HasStringValue(operations0[1].Value.items[2])
    /\ Len(ResolveArgs) = 1

\* C8: when CreateGroup issues its POST, the body holds as many members as
\* the input, in its order, each with the resolver's id for the username the
\* member held before the call, none with that username.
C8_CreateSendsResolvedMembers ==
    PostSent =>
        /\ Len(postBody) = Len(members0)
        /\ \A m \in 1..Len(members0) :
             /\ postBody[m] = UserId(members0[m])
             /\ postBody[m] # members0[m]

\* C8 witness: a POST for a group of two different members.
C8_Witness ==
    /\ PostSent
    /\ Len(members0) = 2
    /\ members0[1] # members0[2]

\* C9: the external calls of one UpdateGroup: the lookup GET is first and
\* issued once; anything after it follows a lookup that returned an id; the
\* resolver is asked in the order of the operations and their elements; a
\* PATCH is issued at most once, last, after every resolution succeeded; no
\* call follows a failed one.
C9_UpdateCallsSequential ==
    opName = "UpdateGroup" =>
        /\ \A k \in 1..Len(calls) :
             (calls[k].kind = "GET" /\ calls[k].target = "lookup") <=> k = 1
        /\ \A k \in 2..Len(calls) : IsResolve(calls[k]) \/ calls[k].kind = "PATCH"
        /\ Len(calls) > 1 => groupID # <<>>
        /\ IsPrefix(ResolveArgs, ExpectedResolves(operations0))
        /\ \A k \in 1..Len(calls) :
             calls[k].kind = "PATCH"
                 => /\ k = Len(calls)
                    /\ k = Len(ExpectedResolves(operations0)) + 2
                    /\ \A h \in 2..(k - 1) : IsResolve(calls[h]) /\ calls[h].ok
        /\ \A k \in 1..(Len(calls) - 1) : calls[k].ok
        /\ (\E k \in 1..Len(calls) : ~calls[k].ok) => Done

\* C9 witness: lookup, two resolutions for two operations, then the PATCH.
C9_Witness ==
    /\ opName = "UpdateGroup"
    /\ Len(operations0) = 2
    /\ Len(calls) = 4
    /\ calls[4].kind = "PATCH"
    /\ calls[2].arg # calls[3].arg

NumResolved == Cardinality({k \in 1..Len(calls) : IsResolve(calls[k]) /\ calls[k].ok})

\* C10: what a failed call leaves in the caller's arguments: an UpdateGroup
\* that failed at the lookup leaves the operations as they were; a CreateGroup
\* or UpdateGroup that failed at a resolution leaves ids (and canonical remove
\* paths) in the entries resolved before it, and the original values in the
\* failing entry and all later ones.
C10_PartialRewriteOnFailure ==
    /\ opName = "UpdateGroup" /\ Done /\ groupID = <<>> => operations = operations0
    /\ opName = "CreateGroup" /\ FailedResolves # {} =>
         members = [m \in 1..Len(members0) |->
                       IF m <= NumResolved THEN UserId(members0[m]) ELSE members0[m]]
    /\ opName = "UpdateGroup" /\ FailedResolves # {} =>
         operations = Rewritten(operations0, NumResolved)

\* C10 witness: an UpdateGroup of two operations that failed at the second
\* resolution, the first operation rewritten and the second as passed.
C10_Witness ==
    /\ opName = "UpdateGroup"
    /\ Done
    /\ FailedResolves # {}
    /\ NumResolved = 1
    /\ Len(operations0) = 2
    /\ operations[1] # operations0[1]
    /\ operations[2] = operations0[2]

====
